---- MODULE Spec2Model ----
(***************************************************************************)
(* Badge controller of src/src/main.cpp: the mode state machine driven by  *)
(* loop(), the BLE write/connect/disconnect callbacks, the button click    *)
(* handler, NVS persistence, the e-paper panel and the idle deep sleep.    *)
(*                                                                         *)
(* Strings are sequences of one-character strings.  Time is millis(), in   *)
(* milliseconds since boot.  A loop() iteration is one action; a BLE       *)
(* callback is one action, except onDisconnect, whose two field writes are *)
(* separate steps because the BLE task runs beside the loop task.          *)
(***************************************************************************)
EXTENDS Integers, Sequences, FiniteSets, TLC

(***************************************************************************)
(* Program constants                                                       *)
(***************************************************************************)
INFO == 0
QR_CODE == 1
BLANK == 2

MAX_QR_INPUT_STRING_LENGTH == 90
MAX_INFO_INPUT_STRING_LENGTH == 150
MAX_INFO_LINES == 10
BUTTON_COOLDOWN_MS == 5000
BATTERY_UPDATE_INTERVAL_MS == 15000
IDLE_TIMEOUT_MS == 60000

NVS_KEY_INFO == "persInfo"
NVS_KEY_QR == "qrData"
NVS_KEY_MODE == "dispMode"

(***************************************************************************)
(* Bounds of the model                                                     *)
(***************************************************************************)
\* One unit of tick duration: a loop() iteration lasts 0 or Quantum ms.
Quantum == 60000
\* While connected millis() runs up to MaxNow; connections start before it.
MaxNow == 60000

(***************************************************************************)
(* Arduino String operations                                               *)
(***************************************************************************)
UpperLetters ==
  <<"A", "B", "C", "D", "E", "F", "G", "H", "I", "J", "K", "L", "M",
    "N", "O", "P", "Q", "R", "S", "T", "U", "V", "W", "X", "Y", "Z">>

LowerLetters ==
  <<"a", "b", "c", "d", "e", "f", "g", "h", "i", "j", "k", "l", "m",
    "n", "o", "p", "q", "r", "s", "t", "u", "v", "w", "x", "y", "z">>

tolower(c) ==
  IF \E i \in 1..Len(UpperLetters) : UpperLetters[i] = c
  THEN LowerLetters[CHOOSE i \in 1..Len(UpperLetters) : UpperLetters[i] = c]
  ELSE c

isspace(c) == c \in {" ", "\t", "\n", "\r", "\f"}

RECURSIVE trimLeft(_)
trimLeft(s) ==
  IF s # <<>> /\ isspace(Head(s)) THEN trimLeft(Tail(s)) ELSE s

RECURSIVE trimRight(_)
trimRight(s) ==
  IF s # <<>> /\ isspace(s[Len(s)]) THEN trimRight(SubSeq(s, 1, Len(s) - 1)) ELSE s

\* String::trim
trim(s) == trimRight(trimLeft(s))

\* String::equalsIgnoreCase
equalsIgnoreCase(a, b) ==
  /\ Len(a) = Len(b)
  /\ \A i \in 1..Len(a) : tolower(a[i]) = tolower(b[i])

\* Mutant: the data prefixes are matched like the commands, ignoring case
startsWith_IgnoreCase(s, prefix) ==
  /\ Len(s) >= Len(prefix)
  /\ equalsIgnoreCase(SubSeq(s, 1, Len(prefix)), prefix)

\* String::startsWith
startsWith(s, prefix) ==
  /\ Len(s) >= Len(prefix)
  /\ SubSeq(s, 1, Len(prefix)) = prefix

\* String::substring(from)
substring(s, from) == SubSeq(s, from + 1, Len(s))

\* String::replace(find, repl): left to right, non-overlapping
RECURSIVE replace(_, _, _)
replace(s, find, repl) ==
  IF Len(s) < Len(find) THEN s
  ELSE IF SubSeq(s, 1, Len(find)) = find
       THEN repl \o replace(SubSeq(s, Len(find) + 1, Len(s)), find, repl)
       ELSE <<Head(s)>> \o replace(Tail(s), find, repl)

\* strtok(buf, "\n"): the non-empty runs between newlines, in order
RECURSIVE strtokLines(_, _)
strtokLines(s, cur) ==
  IF s = <<>> THEN (IF cur = <<>> THEN <<>> ELSE <<cur>>)
  ELSE IF Head(s) = "\n"
       THEN (IF cur = <<>> THEN <<>> ELSE <<cur>>) \o strtokLines(Tail(s), <<>>)
       ELSE strtokLines(Tail(s), Append(cur, Head(s)))

Rep(c, n) == [i \in 1..n |-> c]

(***************************************************************************)
(* String literals of the program                                          *)
(***************************************************************************)
CMD_CLEAR == <<"c", "o", "m", "m", "a", "n", "d", ":", "c", "l", "e", "a", "r">>
CMD_DISPLAY_INFO == <<"d", "i", "s", "p", "l", "a", "y", ":", "i", "n", "f", "o">>
CMD_DISPLAY_QR == <<"d", "i", "s", "p", "l", "a", "y", ":", "q", "r">>
PREFIX_PERSONAL == <<"d", "a", "t", "a", ":", "p", "e", "r", "s", "o", "n", "a", "l", ":">>
PREFIX_QR == <<"d", "a", "t", "a", ":", "q", "r", ":">>
ESCAPED_NEWLINE == <<"\\", "n">>
NEWLINE == <<"\n">>

InitialPersonalInfo ==
  <<"N", "o", " ", "I", "n", "f", "o", " ", "R", "e", "c", "e", "i", "v", "e", "d",
    " ", "Y", "e", "t", ".", "\n", "U", "s", "e", " ", "B", "L", "E", " ", "t", "o",
    " ", "s", "e", "n", "d", " ", "d", "a", "t", "a", ".">>

DefaultPersonalInfo ==
  <<"D", "e", "f", "a", "u", "l", "t", " ", "N", "a", "m", "e", "\n",
    "D", "e", "f", "a", "u", "l", "t", " ", "T", "i", "t", "l", "e", "\n">>

TextNoInfo == <<"N", "o", " ", "I", "n", "f", "o">>

TextNoQrData ==
  <<"N", "o", " ", "Q", "R", " ", "D", "a", "t", "a", " ",
    "A", "v", "a", "i", "l", "a", "b", "l", "e">>

TextQrFailed ==
  <<"Q", "R", " ", "G", "e", "n", "e", "r", "a", "t", "i", "o", "n", " ",
    "F", "a", "i", "l", "e", "d">>

(***************************************************************************)
(* Inbound values written to the data characteristic                       *)
(***************************************************************************)
MsgClear == CMD_CLEAR
MsgClearMixedCase ==
  <<" ", " ", "C", "o", "m", "m", "a", "n", "d", ":", "C", "L", "E", "A", "R", "\n">>
MsgDisplayInfo == CMD_DISPLAY_INFO
MsgDisplayQr == CMD_DISPLAY_QR
MsgPersonal == PREFIX_PERSONAL \o <<"A", "l", "\\", "n", "B", "o">>
MsgQrEmpty == PREFIX_QR
MsgQrShort == PREFIX_QR \o <<"u", "1">>
MsgQrMax == PREFIX_QR \o Rep("m", MAX_QR_INPUT_STRING_LENGTH)
MsgQrOver == PREFIX_QR \o Rep("m", MAX_QR_INPUT_STRING_LENGTH + 1)
MsgUpperPrefix == <<"D", "A", "T", "A", ":", "Q", "R", ":", "x">>

Writes ==
  { MsgClear, MsgClearMixedCase, MsgDisplayInfo, MsgDisplayQr, MsgPersonal,
    MsgQrEmpty, MsgQrShort, MsgQrMax, MsgQrOver, MsgUpperPrefix }

\* The payload of a data:qr: value, as onWrite cuts it out
QrPayloadOf(value) == substring(trim(value), Len(PREFIX_QR))

IsQrWrite(value) == startsWith(trim(value), PREFIX_QR)

(***************************************************************************)
(* State                                                                   *)
(***************************************************************************)
VARIABLES
  currentMode,                 \* DisplayMode currentMode
  requestedMode,               \* DisplayMode requestedMode
  personalInfo,                \* String personalInfo
  qrCodeData,                  \* String qrCodeData
  displayUpdateRequestNeeded,
  clearDisplayRequested,
  newInfoDataReceived,
  newQrDataReceived,
  lastButtonActionTime,
  deviceConnected,
  lastBatteryUpdateTime,
  wakeStartTime,
  nvs,                         \* the "badgeData" namespace of the store
  panel,                       \* what the e-paper shows, and whether it is in hold
  nvsOk,                       \* setup()'s nvsOk: the store opened at this boot
  advertising,                 \* BLE advertising is running
  wakeArmed,                   \* ext0 wakeup on the button is enabled
  pc,                          \* "boot" (before setup), "run" (in loop), "sleep"
  now,                         \* millis()
  discPc,                      \* position inside onDisconnect: "idle" or "mid"
  discAt,                      \* millis() of the disconnect event that ended the
                               \* latest connection, -1 before it and while connected
  preferences,                 \* Preferences preferences: the handle's _started
  save,                        \* positions inside the two begin/put/end sequences
                               \* and the locals loop() holds across its own
  ev                           \* what the latest step was and did

vars ==
  << currentMode, requestedMode, personalInfo, qrCodeData,
     displayUpdateRequestNeeded, clearDisplayRequested, newInfoDataReceived,
     newQrDataReceived, lastButtonActionTime, deviceConnected,
     lastBatteryUpdateTime, wakeStartTime, nvs, panel, nvsOk, advertising, wakeArmed,
     pc, now, discPc, discAt, preferences, save, ev >>

\* The state the program's functions read and write, as one record
G ==
  [ currentMode |-> currentMode,
    requestedMode |-> requestedMode,
    personalInfo |-> personalInfo,
    qrCodeData |-> qrCodeData,
    displayUpdateRequestNeeded |-> displayUpdateRequestNeeded,
    clearDisplayRequested |-> clearDisplayRequested,
    newInfoDataReceived |-> newInfoDataReceived,
    newQrDataReceived |-> newQrDataReceived,
    lastButtonActionTime |-> lastButtonActionTime,
    deviceConnected |-> deviceConnected,
    lastBatteryUpdateTime |-> lastBatteryUpdateTime,
    wakeStartTime |-> wakeStartTime,
    nvs |-> nvs,
    panel |-> panel,
    nvsOk |-> nvsOk,
    advertising |-> advertising,
    wakeArmed |-> wakeArmed,
    preferences |-> preferences,
    save |-> save,
    ev |-> ev ]

\* The primed variables take the fields of g
Becomes(g) ==
  /\ currentMode' = g.currentMode
  /\ requestedMode' = g.requestedMode
  /\ personalInfo' = g.personalInfo
  /\ qrCodeData' = g.qrCodeData
  /\ displayUpdateRequestNeeded' = g.displayUpdateRequestNeeded
  /\ clearDisplayRequested' = g.clearDisplayRequested
  /\ newInfoDataReceived' = g.newInfoDataReceived
  /\ newQrDataReceived' = g.newQrDataReceived
  /\ lastButtonActionTime' = g.lastButtonActionTime
  /\ deviceConnected' = g.deviceConnected
  /\ lastBatteryUpdateTime' = g.lastBatteryUpdateTime
  /\ wakeStartTime' = g.wakeStartTime
  /\ nvs' = g.nvs
  /\ panel' = g.panel
  /\ nvsOk' = g.nvsOk
  /\ advertising' = g.advertising
  /\ wakeArmed' = g.wakeArmed
  /\ preferences' = g.preferences
  /\ save' = g.save
  /\ ev' = g.ev

\* What loop() found pending when an iteration started (all clear for a step
\* that is no iteration of loop())
NoPre ==
  [ currentMode |-> INFO,
    requestedMode |-> INFO,
    clearDisplayRequested |-> FALSE,
    newInfoDataReceived |-> FALSE,
    newQrDataReceived |-> FALSE,
    displayUpdateRequestNeeded |-> FALSE,
    after |-> <<>> ]

PreOf(g) ==
  [ currentMode |-> g.currentMode,
    requestedMode |-> g.requestedMode,
    clearDisplayRequested |-> g.clearDisplayRequested,
    newInfoDataReceived |-> g.newInfoDataReceived,
    newQrDataReceived |-> g.newQrDataReceived,
    displayUpdateRequestNeeded |-> g.displayUpdateRequestNeeded,
    after |-> g.ev.value ]     \* the value written just before, if any

\* The record of a step: its kind, its inputs, what it observed and did
Event(kind, value, pre) ==
  [ kind |-> kind,
    value |-> value,           \* the value written (onWrite)
    dataChanged |-> FALSE,     \* onWrite's dataChanged
    click |-> FALSE,           \* button.tick() reported a click
    accepted |-> FALSE,        \* the click passed the cooldown check
    conn |-> FALSE,            \* loop() saw deviceConnected
    paints |-> 0,              \* calls of updateDisplay
    clears |-> 0,              \* calls of performFullClear
    puts |-> {},               \* keys written to the store
    notified |-> FALSE,        \* a battery notification was sent
    slept |-> FALSE,           \* esp_deep_sleep_start was called
    pre |-> pre ]

\* millis() - since.  Every timestamp is a value millis() had earlier in the
\* same boot, and millis() stays far below its 32-bit wrap within the bounds,
\* so the unsigned subtraction is the plain difference.
Elapsed(t, since) == t - since

(***************************************************************************)
(* Preferences (NVS)                                                       *)
(***************************************************************************)
EmptyStore ==
  [ has |-> {}, persInfo |-> <<>>, qrData |-> <<>>, dispMode |-> 0 ]

putString(g, key, val) ==
  [g EXCEPT !.nvs = [@ EXCEPT !.has = @ \cup {key}, ![key] = val],
            !.ev.puts = @ \cup {key}]

putUInt(g, key, val) ==
  [g EXCEPT !.nvs = [@ EXCEPT !.has = @ \cup {key}, ![key] = val],
            !.ev.puts = @ \cup {key}]

getString(store, key, default) ==
  IF key \in store.has THEN store[key] ELSE default

getUInt(store, key, default) ==
  IF key \in store.has THEN store[key] ELSE default

(***************************************************************************)
(* Panel                                                                   *)
(***************************************************************************)
Blank == [ kind |-> "blank", lines |-> <<>> ]

hibernate(g) == [g EXCEPT !.panel.hold = TRUE]

\* drawInfoScreen: at most MAX_INFO_LINES non-empty lines of the first
\* MAX_INFO_INPUT_STRING_LENGTH characters, or "No Info"
drawInfoScreen(info) ==
  LET textBuf == SubSeq(info, 1, IF Len(info) < MAX_INFO_INPUT_STRING_LENGTH
                                 THEN Len(info) ELSE MAX_INFO_INPUT_STRING_LENGTH)
      all == strtokLines(textBuf, <<>>)
      lines == SubSeq(all, 1, IF Len(all) < MAX_INFO_LINES THEN Len(all) ELSE MAX_INFO_LINES)
  IN IF Len(lines) = 0
     THEN [ kind |-> "message", lines |-> <<TextNoInfo>> ]
     ELSE [ kind |-> "info", lines |-> lines ]

\* drawQrCode: FALSE when the text is empty or too long or the encoder fails
drawQrCode(text, encOk) ==
  IF text = <<>> THEN FALSE
  ELSE IF Len(text) > MAX_QR_INPUT_STRING_LENGTH THEN FALSE
  ELSE encOk

drawQrScreen(text, encOk) ==
  IF drawQrCode(text, encOk)
  THEN [ kind |-> "qr", lines |-> <<text>> ]
  ELSE [ kind |-> "message", lines |-> <<TextQrFailed>> ]

\* What updateDisplay paints for the current mode
Screen(g, encOk) ==
  IF g.currentMode = INFO THEN drawInfoScreen(g.personalInfo)
  ELSE IF g.currentMode = QR_CODE
       THEN IF Len(g.qrCodeData) > 0
            THEN drawQrScreen(g.qrCodeData, encOk)
            ELSE [ kind |-> "message", lines |-> <<TextNoQrData>> ]
       ELSE Blank

updateDisplay(g, encOk) ==
  [g EXCEPT !.panel = [ shown |-> Screen(g, encOk), hold |-> FALSE ],
            !.ev.paints = @ + 1]

performFullClear(g) ==
  [g EXCEPT !.panel = [ shown |-> Blank, hold |-> FALSE ],
            !.ev.clears = @ + 1,
            !.currentMode = BLANK,
            !.requestedMode = BLANK]

(***************************************************************************)
(* DataCharacteristicCallbacks::onWrite                                    *)
(***************************************************************************)
\* Mutant: the length check forgotten
QrPayloadFits_NoLimit(qrPayload) == TRUE

\* The length check on a data:qr: payload
QrPayloadFits(qrPayload) == Len(qrPayload) <= MAX_QR_INPUT_STRING_LENGTH

\* The command/data dispatch: the new state and the dataChanged flag
onWriteDispatch(g, valueStr) ==
  IF equalsIgnoreCase(valueStr, CMD_CLEAR)
  THEN [ g |-> [g EXCEPT !.clearDisplayRequested = TRUE,
                         !.newInfoDataReceived = FALSE,
                         !.newQrDataReceived = FALSE],
         dataChanged |-> FALSE ]
  ELSE IF equalsIgnoreCase(valueStr, CMD_DISPLAY_INFO)
  THEN [ g |-> [g EXCEPT !.requestedMode = INFO], dataChanged |-> FALSE ]
  ELSE IF equalsIgnoreCase(valueStr, CMD_DISPLAY_QR)
  THEN [ g |-> [g EXCEPT !.requestedMode = QR_CODE], dataChanged |-> FALSE ]
  ELSE IF startsWith(valueStr, PREFIX_PERSONAL)
  THEN LET infoPayload == substring(valueStr, Len(PREFIX_PERSONAL))
       IN IF g.personalInfo # infoPayload
          THEN [ g |-> [g EXCEPT !.personalInfo = replace(infoPayload, ESCAPED_NEWLINE, NEWLINE),
                                 !.newInfoDataReceived = TRUE,
                                 !.clearDisplayRequested = FALSE,
                                 !.requestedMode = INFO],
                 dataChanged |-> TRUE ]
          ELSE [ g |-> g, dataChanged |-> FALSE ]
  ELSE IF startsWith(valueStr, PREFIX_QR)
  THEN LET qrPayload == substring(valueStr, Len(PREFIX_QR))
       IN IF QrPayloadFits(qrPayload) /\ g.qrCodeData # qrPayload
          THEN [ g |-> [g EXCEPT !.qrCodeData = qrPayload,
                                 !.newQrDataReceived = TRUE,
                                 !.clearDisplayRequested = FALSE,
                                 !.requestedMode = QR_CODE],
                 dataChanged |-> TRUE ]
          ELSE [ g |-> g, dataChanged |-> FALSE ]
  ELSE [ g |-> g, dataChanged |-> FALSE ]

\* The save to NVS that ends onWrite
onWriteSave(g) ==
  LET a == IF g.newInfoDataReceived
           THEN putString(g, NVS_KEY_INFO, g.personalInfo) ELSE g
  IN IF a.newQrDataReceived THEN putString(a, NVS_KEY_QR, a.qrCodeData) ELSE a

\* Mutant: the clear command clears the panel from within the callback
onWrite_ClearsPanel(g, value) ==
  LET r == onWriteDispatch(g, trim(value))
  IN IF equalsIgnoreCase(trim(value), CMD_CLEAR)
     THEN hibernate(performFullClear(r.g))
     ELSE IF r.dataChanged
          THEN onWriteSave([r.g EXCEPT !.ev.dataChanged = TRUE])
          ELSE r.g

onWrite(g, value) ==
  LET r == onWriteDispatch(g, trim(value))
  IN IF r.dataChanged
     THEN onWriteSave([r.g EXCEPT !.ev.dataChanged = TRUE])
     ELSE r.g

(***************************************************************************)
(* handleButtonClick                                                       *)
(***************************************************************************)
\* Mutant: without QR data a click in INFO asks for INFO again
NextModeByButton_StaysWithoutQr(g) ==
  IF g.currentMode = INFO
  THEN (IF Len(g.qrCodeData) > 0 THEN QR_CODE ELSE INFO)
  ELSE IF g.currentMode = QR_CODE THEN BLANK
  ELSE INFO

\* Mutant: clicks add up, each rotating from the mode requested so far
NextModeByButton_FromRequested(g) ==
  IF g.requestedMode = INFO
  THEN (IF Len(g.qrCodeData) > 0 THEN QR_CODE ELSE BLANK)
  ELSE IF g.requestedMode = QR_CODE THEN BLANK
  ELSE INFO

\* Mutant: the rotation does not skip QR_CODE when there is no QR data
NextModeByButton_NoSkip(g) ==
  IF g.currentMode = INFO THEN QR_CODE
  ELSE IF g.currentMode = QR_CODE THEN BLANK
  ELSE INFO

\* The mode the button asks for
NextModeByButton(g) ==
  IF g.currentMode = INFO
  THEN (IF Len(g.qrCodeData) > 0 THEN QR_CODE ELSE BLANK)
  ELSE IF g.currentMode = QR_CODE THEN BLANK
  ELSE IF g.currentMode = BLANK THEN INFO
  ELSE INFO

\* Mutant: the cooldown timer is started only when the request differs from
\* the one pending before
handleButtonClick_StampOnNewRequest(g, t) ==
  IF Elapsed(t, g.lastButtonActionTime) < BUTTON_COOLDOWN_MS
  THEN g
  ELSE LET modeBeforeRequest == g.requestedMode
           a == [g EXCEPT !.requestedMode = NextModeByButton(g), !.ev.accepted = TRUE]
       IN IF a.requestedMode # modeBeforeRequest
          THEN [a EXCEPT !.lastButtonActionTime = t]
          ELSE a

\* Mutant: an accepted click also restarts the idle clock
handleButtonClick_RestartsIdle(g, t) ==
  IF Elapsed(t, g.lastButtonActionTime) < BUTTON_COOLDOWN_MS
  THEN g
  ELSE [g EXCEPT !.requestedMode = NextModeByButton(g),
                 !.ev.accepted = TRUE,
                 !.lastButtonActionTime = t,
                 !.wakeStartTime = t]

handleButtonClick(g, t) ==
  IF Elapsed(t, g.lastButtonActionTime) < BUTTON_COOLDOWN_MS
  THEN g
  ELSE LET modeBeforeRequest == g.requestedMode
           a == [g EXCEPT !.requestedMode = NextModeByButton(g), !.ev.accepted = TRUE]
       IN IF a.requestedMode # a.currentMode \/ a.requestedMode # modeBeforeRequest
          THEN [a EXCEPT !.lastButtonActionTime = t]
          ELSE a

(***************************************************************************)
(* sendBatteryNotification                                                 *)
(***************************************************************************)
\* Mutant: a notification in every connected iteration, the interval ignored
sendBatteryNotification_EveryTick(g, t) ==
  IF g.deviceConnected
  THEN [g EXCEPT !.lastBatteryUpdateTime = t, !.ev.notified = TRUE]
  ELSE g

sendBatteryNotification(g, t) ==
  IF g.deviceConnected /\ Elapsed(t, g.lastBatteryUpdateTime) >= BATTERY_UPDATE_INTERVAL_MS
  THEN [g EXCEPT !.lastBatteryUpdateTime = t, !.ev.notified = TRUE]
  ELSE g

(***************************************************************************)
(* loop                                                                    *)
(***************************************************************************)
\* Mutant: a QR_CODE request without QR data is left pending
ModeChangeRequest_NoRevert(g) ==
  LET allowSwitch ==
        \/ g.requestedMode = INFO
        \/ g.requestedMode = QR_CODE /\ Len(g.qrCodeData) > 0
        \/ g.requestedMode = BLANK
  IN IF allowSwitch
     THEN LET a == [g EXCEPT !.currentMode = g.requestedMode]
          IN IF a.currentMode = BLANK
             THEN [ g |-> hibernate(performFullClear(a)), needsRedraw |-> FALSE ]
             ELSE [ g |-> a, needsRedraw |-> TRUE ]
     ELSE [ g |-> g, needsRedraw |-> FALSE ]

\* The mode-change request, as both branches of loop() process it:
\* the new state and the needsRedraw flag
ModeChangeRequest(g) ==
  LET allowSwitch ==
        \/ g.requestedMode = INFO
        \/ g.requestedMode = QR_CODE /\ Len(g.qrCodeData) > 0
        \/ g.requestedMode = BLANK
  IN IF allowSwitch
     THEN LET a == [g EXCEPT !.currentMode = g.requestedMode]
          IN IF a.currentMode = BLANK
             THEN [ g |-> hibernate(performFullClear(a)), needsRedraw |-> FALSE ]
             ELSE [ g |-> a, needsRedraw |-> TRUE ]
     ELSE IF g.requestedMode = QR_CODE
          THEN [ g |-> [g EXCEPT !.requestedMode = g.currentMode], needsRedraw |-> FALSE ]
          ELSE [ g |-> g, needsRedraw |-> FALSE ]

\* Priority 1 of the connected branch: the clear command
ClearRequest(g) ==
  LET a == [g EXCEPT !.clearDisplayRequested = FALSE]
      b == IF a.currentMode # BLANK
           THEN hibernate(performFullClear([a EXCEPT !.currentMode = BLANK]))
           ELSE a
  IN [ g |-> [b EXCEPT !.newInfoDataReceived = FALSE, !.newQrDataReceived = FALSE],
       needsRedraw |-> FALSE ]

\* Mutant: the mode-change request is looked at before the clear command
ConnectedRequests_ModeFirst(g) ==
  IF g.requestedMode # g.currentMode THEN ModeChangeRequest(g)
  ELSE IF g.clearDisplayRequested THEN ClearRequest(g)
  ELSE IF g.newInfoDataReceived /\ g.currentMode = INFO
  THEN [ g |-> g, needsRedraw |-> TRUE ]
  ELSE IF g.newQrDataReceived /\ g.currentMode = QR_CODE
  THEN [ g |-> g, needsRedraw |-> TRUE ]
  ELSE [ g |-> g, needsRedraw |-> FALSE ]

\* The priority chain of the connected branch
ConnectedRequests(g) ==
  IF g.clearDisplayRequested THEN ClearRequest(g)
  ELSE IF g.requestedMode # g.currentMode THEN ModeChangeRequest(g)
  ELSE IF g.newInfoDataReceived /\ g.currentMode = INFO
  THEN [ g |-> g, needsRedraw |-> TRUE ]
  ELSE IF g.newQrDataReceived /\ g.currentMode = QR_CODE
  THEN [ g |-> g, needsRedraw |-> TRUE ]
  ELSE [ g |-> g, needsRedraw |-> FALSE ]

\* Mutant: the mode is written to the store in every iteration
SaveMode_Always(g, previousMode) == putUInt(g, NVS_KEY_MODE, g.currentMode)

\* Mutant: the mode is never written to the store
SaveMode_Never(g, previousMode) == g

\* "Save mode to NVS if changed"
SaveMode(g, previousMode) ==
  IF g.currentMode # previousMode
  THEN putUInt(g, NVS_KEY_MODE, g.currentMode)
  ELSE g

\* Mutant: only the initial-update flag triggers a repaint
TriggerUpdate_InitialOnly(g, needsRedraw, encOk) ==
  LET a == [g EXCEPT !.displayUpdateRequestNeeded = FALSE]
  IN IF g.displayUpdateRequestNeeded /\ a.currentMode # BLANK
     THEN hibernate(updateDisplay(a, encOk))
     ELSE a

\* Mutant: the repaint is not followed by display.hibernate()
TriggerUpdate_NoHibernate(g, needsRedraw, encOk) ==
  LET shouldUpdate == needsRedraw \/ g.displayUpdateRequestNeeded
      a == [g EXCEPT !.displayUpdateRequestNeeded = FALSE]
  IN IF shouldUpdate /\ a.currentMode # BLANK
     THEN updateDisplay(a, encOk)
     ELSE a

\* "Trigger Display Update"
TriggerUpdate(g, needsRedraw, encOk) ==
  LET shouldUpdate == needsRedraw \/ g.displayUpdateRequestNeeded
      a == [g EXCEPT !.displayUpdateRequestNeeded = FALSE]
  IN IF shouldUpdate /\ a.currentMode # BLANK
     THEN hibernate(updateDisplay(a, encOk))
     ELSE a

\* Mutant: deep sleep is entered with advertising still running
IdleTimeout_KeepsAdvertising(g, t) ==
  IF Elapsed(t, g.wakeStartTime) >= IDLE_TIMEOUT_MS
  THEN [hibernate(g) EXCEPT !.ev.slept = TRUE]
  ELSE g

\* "Check Button/Power-On Wake Timeout"
IdleTimeout(g, t) ==
  IF Elapsed(t, g.wakeStartTime) >= IDLE_TIMEOUT_MS
  THEN [hibernate(g) EXCEPT !.advertising = FALSE, !.ev.slept = TRUE]
  ELSE g

\* Mutant: the connected branch runs the idle check too
ConnectedBranch_IdleCheck(g, encOk, t) ==
  LET a == sendBatteryNotification(g, t)
      previousMode == a.currentMode
      r == ConnectedRequests(a)
      b == [r.g EXCEPT !.newInfoDataReceived = FALSE, !.newQrDataReceived = FALSE]
      c == SaveMode(b, previousMode)
  IN IdleTimeout(TriggerUpdate(c, r.needsRedraw, encOk), t)

ConnectedBranch(g, encOk, t) ==
  LET a == sendBatteryNotification(g, t)
      previousMode == a.currentMode
      r == ConnectedRequests(a)
      b == [r.g EXCEPT !.newInfoDataReceived = FALSE, !.newQrDataReceived = FALSE]
      c == SaveMode(b, previousMode)
  IN TriggerUpdate(c, r.needsRedraw, encOk)

\* Mutant: the disconnected branch changes the mode without saving it
DisconnectedBranch_NoSave(g, encOk, t) ==
  LET r == IF g.requestedMode # g.currentMode
           THEN ModeChangeRequest(g)
           ELSE [ g |-> g, needsRedraw |-> FALSE ]
      d == TriggerUpdate(r.g, r.needsRedraw, encOk)
  IN IdleTimeout(d, t)

DisconnectedBranch(g, encOk, t) ==
  LET previousModeDisconnected == g.currentMode
      r == IF g.requestedMode # g.currentMode
           THEN ModeChangeRequest(g)
           ELSE [ g |-> g, needsRedraw |-> FALSE ]
      c == SaveMode(r.g, previousModeDisconnected)
      d == TriggerUpdate(c, r.needsRedraw, encOk)
  IN IdleTimeout(d, t)

\* One iteration of loop(): button.tick(), then the branch deviceConnected selects
loop(g, click, encOk, t) ==
  LET a == [g EXCEPT !.ev = [Event("tick", <<>>, PreOf(g)) EXCEPT !.click = click,
                                                         !.conn = g.deviceConnected]]
      b == IF click THEN handleButtonClick(a, t) ELSE a
  IN IF b.deviceConnected
     THEN ConnectedBranch(b, encOk, t)
     ELSE DisconnectedBranch(b, encOk, t)

(***************************************************************************)
(* setup                                                                   *)
(***************************************************************************)
\* What setup() reads from the store when it opens
\* Mutant: an absent info key leaves the text the program starts with
LoadedInfo_KeepsInitial(store) == getString(store, NVS_KEY_INFO, InitialPersonalInfo)

LoadedInfo(store) == getString(store, NVS_KEY_INFO, DefaultPersonalInfo)
LoadedQr(store) == getString(store, NVS_KEY_QR, <<>>)
LoadedMode(store) == getUInt(store, NVS_KEY_MODE, INFO)

setup(g, opened, encOk, t) ==
  LET a == IF opened
           THEN [g EXCEPT !.nvsOk = TRUE,
                          !.personalInfo = LoadedInfo(g.nvs),
                          !.qrCodeData = LoadedQr(g.nvs),
                          !.currentMode = LoadedMode(g.nvs)]
           ELSE [g EXCEPT !.nvsOk = FALSE, !.currentMode = INFO]
      b == [a EXCEPT !.requestedMode = a.currentMode,
                     !.wakeStartTime = t,
                     !.displayUpdateRequestNeeded = TRUE,
                     !.advertising = TRUE,
                     !.wakeArmed = TRUE]
  IN IF b.displayUpdateRequestNeeded
     THEN hibernate(updateDisplay(b, encOk))
     ELSE hibernate(b)

(***************************************************************************)
(* Initial state: the globals as constructed, before setup() runs          *)
(***************************************************************************)
\* The store of a device that boots for the first time
InitialStores == { EmptyStore }

\* Neither onWrite nor loop() is inside its begin/put/end sequence
SaveIdle ==
  [ onWrite |-> "idle", loop |-> "idle", needsRedraw |-> FALSE, encOk |-> FALSE ]

Globals(store, shown) ==
  [ currentMode |-> INFO,
    requestedMode |-> INFO,
    personalInfo |-> InitialPersonalInfo,
    qrCodeData |-> <<>>,
    displayUpdateRequestNeeded |-> TRUE,
    clearDisplayRequested |-> FALSE,
    newInfoDataReceived |-> FALSE,
    newQrDataReceived |-> FALSE,
    lastButtonActionTime |-> 0,
    deviceConnected |-> FALSE,
    lastBatteryUpdateTime |-> 0,
    wakeStartTime |-> 0,
    nvs |-> store,
    panel |-> [ shown |-> shown, hold |-> TRUE ],
    nvsOk |-> FALSE,
    advertising |-> FALSE,
    wakeArmed |-> FALSE,
    preferences |-> [ started |-> FALSE ],
    save |-> SaveIdle,
    ev |-> Event("reset", <<>>, NoPre) ]

InitWith(stores) ==
  /\ \E store \in stores :
       /\ currentMode = Globals(store, Blank).currentMode
       /\ requestedMode = Globals(store, Blank).requestedMode
       /\ personalInfo = Globals(store, Blank).personalInfo
       /\ qrCodeData = Globals(store, Blank).qrCodeData
       /\ displayUpdateRequestNeeded = Globals(store, Blank).displayUpdateRequestNeeded
       /\ clearDisplayRequested = Globals(store, Blank).clearDisplayRequested
       /\ newInfoDataReceived = Globals(store, Blank).newInfoDataReceived
       /\ newQrDataReceived = Globals(store, Blank).newQrDataReceived
       /\ lastButtonActionTime = Globals(store, Blank).lastButtonActionTime
       /\ deviceConnected = Globals(store, Blank).deviceConnected
       /\ lastBatteryUpdateTime = Globals(store, Blank).lastBatteryUpdateTime
       /\ wakeStartTime = Globals(store, Blank).wakeStartTime
       /\ nvs = Globals(store, Blank).nvs
       /\ panel = Globals(store, Blank).panel
       /\ nvsOk = Globals(store, Blank).nvsOk
       /\ advertising = Globals(store, Blank).advertising
       /\ wakeArmed = Globals(store, Blank).wakeArmed
       /\ preferences = Globals(store, Blank).preferences
       /\ save = Globals(store, Blank).save
       /\ ev = Globals(store, Blank).ev
  /\ pc = "boot"
  /\ now = 0
  /\ discPc = "idle"
  /\ discAt = -1

Init == InitWith(InitialStores)

(***************************************************************************)
(* Actions                                                                 *)
(***************************************************************************)
\* The outcomes of qrcode_initText
EncoderOutcomes == BOOLEAN

\* The outcomes of preferences.begin in setup(): TRUE when the read-only or
\* the read/write attempt opens the namespace, FALSE when both fail
OpenOutcomes == BOOLEAN

\* The boots Spec explores: the store opens
StoreOpens == { TRUE }

\* The durations of one loop() iteration, delay(10) included
TickDurations == { 0, Quantum }

\* setup() after power-on or wake, the store opening as one of `outcomes`
SetupWith(outcomes) ==
  /\ pc = "boot"
  /\ \E opened \in outcomes, encOk \in EncoderOutcomes :
       Becomes(setup([G EXCEPT !.ev = Event("setup", <<>>, NoPre)], opened, encOk, now))
  /\ pc' = "run"
  /\ UNCHANGED << now, discPc, discAt >>

Setup == SetupWith(StoreOpens)

\* One iteration of loop() that lasts d ms, delay(10) included
Tick(click, encOk, d) ==
  /\ LET g == loop(G, click, encOk, now)
     IN /\ Becomes(g)
        /\ pc' = IF g.ev.slept THEN "sleep" ELSE "run"
        /\ now' = IF g.ev.slept THEN now ELSE now + d
  /\ UNCHANGED << discPc, discAt >>

\* An iteration of loop(), within the horizon while connected
LoopTick ==
  /\ pc = "run"
  /\ \E click \in BOOLEAN, encOk \in EncoderOutcomes, d \in TickDurations :
       /\ d > 0 => (now + d <= MaxNow \/ ~deviceConnected)
       /\ Tick(click, encOk, d)

\* MyServerCallbacks::onConnect
OnConnect ==
  /\ pc = "run"
  /\ ~deviceConnected
  /\ discPc = "idle"
  /\ advertising
  /\ now < MaxNow
  /\ Becomes([G EXCEPT !.deviceConnected = TRUE, !.ev = Event("connect", <<>>, NoPre)])
  /\ discAt' = -1
  /\ UNCHANGED << pc, now, discPc >>

\* MyServerCallbacks::onDisconnect, first write: deviceConnected = false
OnDisconnectBegin ==
  /\ pc = "run"
  /\ deviceConnected
  /\ Becomes([G EXCEPT !.deviceConnected = FALSE, !.ev = Event("disconnect", <<>>, NoPre)])
  /\ discPc' = "mid"
  /\ discAt' = now
  /\ UNCHANGED << pc, now >>

\* MyServerCallbacks::onDisconnect, second write: wakeStartTime = millis()
OnDisconnectEnd ==
  /\ pc = "run"
  /\ discPc = "mid"
  /\ Becomes([G EXCEPT !.wakeStartTime = now, !.ev = Event("disconnected", <<>>, NoPre)])
  /\ discPc' = "idle"
  /\ UNCHANGED << pc, now, discAt >>

\* DataCharacteristicCallbacks::onWrite
OnWriteOf(values) ==
  /\ pc = "run"
  /\ deviceConnected
  /\ \E value \in values :
       Becomes(onWrite([G EXCEPT !.ev = Event("write", value, NoPre)], value))
  /\ UNCHANGED << pc, now, discPc, discAt >>

OnWrite == OnWriteOf(Writes)

\* The button wakes the chip from deep sleep: RAM is lost, the store and the
\* panel image are kept
Wake ==
  /\ pc = "sleep"
  /\ Becomes(Globals(nvs, panel.shown))
  /\ pc' = "boot"
  /\ now' = 0
  /\ discPc' = "idle"
  /\ discAt' = -1

Next ==
  \/ Setup
  \/ LoopTick
  \/ OnConnect
  \/ OnDisconnectBegin
  \/ OnDisconnectEnd
  \/ OnWrite
  \/ Wake

Spec == Init /\ [][Next]_vars

\* An iteration of loop() that passes time or enters deep sleep
LoopTickAdvances == LoopTick /\ (now' # now \/ pc' = "sleep")

\* ENABLED <<LoopTickAdvances>>_vars: loop() is running and an iteration of
\* Quantum ms is within the horizon (loop() itself is total)
LoopTickCanAdvance == pc = "run" /\ (now + Quantum <= MaxNow \/ ~deviceConnected)

\* The loop runs on: iterations keep coming, and millis() keeps advancing
\* through them (delay(10) ends every iteration that does not enter deep
\* sleep).  This is weak fairness of LoopTickAdvances, spelled out as
\* []<>~ENABLED <<A>>_vars \/ []<><<A>>_vars with ENABLED given by its guard.
\* And a callback runs to its end: onDisconnect, once it has written
\* deviceConnected, goes on to write wakeStartTime.
FairSpec ==
  /\ Spec
  /\ ([]<>~LoopTickCanAdvance \/ []<><<LoopTickAdvances>>_vars)
  /\ WF_vars(OnDisconnectEnd)

(***************************************************************************)
(* The button at the resolution of its cooldown: iterations that last 0 ms, *)
(* one ms less than the cooldown, or the cooldown                          *)
(***************************************************************************)
\* millis() runs up to ButtonHorizon
ButtonHorizon == 10000

ButtonDurations == { 0, BUTTON_COOLDOWN_MS - 1, BUTTON_COOLDOWN_MS }

ButtonWrites == { MsgClear, MsgDisplayInfo, MsgQrShort }

ButtonTick ==
  /\ pc = "run"
  /\ \E click \in BOOLEAN, encOk \in EncoderOutcomes, d \in ButtonDurations :
       /\ now + d <= ButtonHorizon
       /\ Tick(click, encOk, d)

ButtonNext ==
  \/ Setup
  \/ ButtonTick
  \/ OnConnect
  \/ OnDisconnectBegin
  \/ OnDisconnectEnd
  \/ OnWriteOf(ButtonWrites)

ButtonSpec == Init /\ [][ButtonNext]_vars

(***************************************************************************)
(* drawQrCode over target areas: the geometry of the symbol                *)
(***************************************************************************)
FIXED_QR_SCALE == 2
QR_QUIET_ZONE_MODULES == 4

\* Target areas are 0..MaxArea pixels wide and high
MaxArea == 24
\* Symbols have 1..MaxModules modules a side
MaxModules == 3

\* "Calculate centering offset within the target area", clamped at 0
QrOffset(area, size) == IF area < size THEN 0 ELSE (area - size) \div 2

\* The modules of an n x n symbol whose rectangle drawQrCode fills when the
\* module is black: those that end within the w x h display
QrModulesDrawn(w, h, n) ==
  { m \in (0..(n - 1)) \X (0..(n - 1)) :
      /\ QrOffset(w, n * FIXED_QR_SCALE) + m[1] * FIXED_QR_SCALE + FIXED_QR_SCALE <= w
      /\ QrOffset(h, n * FIXED_QR_SCALE) + m[2] * FIXED_QR_SCALE + FIXED_QR_SCALE <= h }

\* drawQrCode(0, 0, w, h, text) for a symbol of n modules a side: its return
\* value and the modules it may paint
drawQrCodeIn(w, h, n, text, encOk) ==
  [ ok |-> drawQrCode(text, encOk),
    modules |-> IF drawQrCode(text, encOk) THEN QrModulesDrawn(w, h, n) ELSE {} ]

\* drawQrScreen on a w x h display, for a symbol of n modules a side
DrawQr ==
  /\ pc = "boot"
  /\ ev.kind = "reset"
  /\ \E w \in 0..MaxArea, h \in 0..MaxArea, n \in 1..MaxModules, encOk \in EncoderOutcomes :
       LET text == QrPayloadOf(MsgQrShort)
           r == drawQrCodeIn(w, h, n, text, encOk)
       IN /\ ev' = [ kind |-> "drawQrScreen", w |-> w, h |-> h, n |-> n,
                     ok |-> r.ok, modules |-> r.modules ]
          /\ panel' = [ shown |-> drawQrScreen(text, encOk), hold |-> FALSE ]
  /\ UNCHANGED << currentMode, requestedMode, personalInfo, qrCodeData,
                  displayUpdateRequestNeeded, clearDisplayRequested,
                  newInfoDataReceived, newQrDataReceived, lastButtonActionTime,
                  deviceConnected, lastBatteryUpdateTime, wakeStartTime, nvs, nvsOk,
                  advertising, wakeArmed, pc, now, discPc, discAt, preferences,
                  save >>

GeometrySpec == Init /\ [][DrawQr]_vars

(***************************************************************************)
(* Boot over the stores a device can hold: each key absent or present      *)
(***************************************************************************)
\* The values a DisplayMode object holds: the enumerators need two bits, so
\* the cast at the mode load is defined for 0..3, and 3 names no enumerator
MaxStoredOrdinal == 3

StoredInfos == { <<"A", "l", "\n", "B", "o">>, DefaultPersonalInfo }
StoredQrs == { <<>>, <<"u", "1">> }

BootStores ==
  { [ has |-> h,
      persInfo |-> IF NVS_KEY_INFO \in h THEN i ELSE <<>>,
      qrData |-> IF NVS_KEY_QR \in h THEN q ELSE <<>>,
      dispMode |-> IF NVS_KEY_MODE \in h THEN m ELSE 0 ] :
      h \in SUBSET {NVS_KEY_INFO, NVS_KEY_QR, NVS_KEY_MODE},
      i \in StoredInfos, q \in StoredQrs, m \in 0..MaxStoredOrdinal }

\* setup(), the store opening or not
BootSetup == SetupWith(OpenOutcomes)

BootSpec == InitWith(BootStores) /\ [][BootSetup]_vars

(***************************************************************************)
(* Writes of every shape, with the clock standing still                    *)
(***************************************************************************)
MsgEmpty == <<>>
MsgClearLonger == CMD_CLEAR \o <<"x">>
MsgQrNoColon == <<"d", "a", "t", "a", ":", "q", "r">>
MsgPersonalUpper ==
  <<"D", "a", "t", "a", ":", "P", "e", "r", "s", "o", "n", "a", "l", ":", "Z">>
MsgDisplayInner == <<"d", "i", "s", "p", "l", "a", "y", ":", " ", "q", "r">>

ParseWrites ==
  Writes \cup { MsgEmpty, MsgClearLonger, MsgQrNoColon, MsgPersonalUpper,
                MsgDisplayInner }

\* An iteration of loop() in the same millisecond
ParseTick ==
  /\ pc = "run"
  /\ \E click \in BOOLEAN, encOk \in EncoderOutcomes : Tick(click, encOk, 0)

ParseNext ==
  \/ Setup
  \/ ParseTick
  \/ OnConnect
  \/ OnWriteOf(ParseWrites)

ParseSpec == Init /\ [][ParseNext]_vars

(***************************************************************************)
(* Loop iterations around the battery interval                             *)
(***************************************************************************)
TelemetryHorizon == 45000

TelemetryDurations ==
  { 0, BATTERY_UPDATE_INTERVAL_MS - 1, BATTERY_UPDATE_INTERVAL_MS }

TelemetryTick ==
  /\ pc = "run"
  /\ \E click \in BOOLEAN, encOk \in EncoderOutcomes, d \in TelemetryDurations :
       /\ now + d <= TelemetryHorizon
       /\ Tick(click, encOk, d)

TelemetryNext ==
  \/ Setup
  \/ TelemetryTick
  \/ OnConnect
  \/ OnDisconnectBegin
  \/ OnDisconnectEnd

TelemetrySpec == Init /\ [][TelemetryNext]_vars

(***************************************************************************)
(* ReadCharacteristicCallbacks::onRead                                     *)
(***************************************************************************)
\* String::indexOf(ch, fromIndex): the 0-based position, -1 when absent
indexOfFrom(s, ch, fromIndex) ==
  IF \E i \in (fromIndex + 1)..Len(s) : s[i] = ch
  THEN (CHOOSE i \in (fromIndex + 1)..Len(s) :
          s[i] = ch /\ \A j \in (fromIndex + 1)..(i - 1) : s[j] # ch) - 1
  ELSE -1

\* String::indexOf(ch)
indexOf(s, ch) == indexOfFrom(s, ch, 0)

\* String::substring(left, right): the characters left .. right - 1
substringTo(s, left, right) ==
  LET lo == IF left > right THEN right ELSE left
      hi == IF left > right THEN left ELSE right
      end == IF hi > Len(s) THEN Len(s) ELSE hi
  IN IF lo >= Len(s) THEN <<>> ELSE SubSeq(s, lo + 1, end)

Characteristics == { "name", "email", "phone", "qrUrl", "battery" }

\* readBatteryLevel(): a percentage computed from the ADC reading
BatteryLevels == { 0, 50, 100 }

readName(info) ==
  LET newlinePos == indexOf(info, "\n")
  IN IF newlinePos # -1 THEN substringTo(info, 0, newlinePos) ELSE info

readEmail(info) ==
  LET firstNewline == indexOf(info, "\n")
      secondNewline == IF firstNewline # -1
                       THEN indexOfFrom(info, "\n", firstNewline + 1) ELSE -1
  IN IF firstNewline # -1
     THEN (IF secondNewline # -1
           THEN substringTo(info, firstNewline + 1, secondNewline)
           ELSE substring(info, firstNewline + 1))
     ELSE <<>>

readPhone(info) ==
  LET firstNewline == indexOf(info, "\n")
      secondNewline == IF firstNewline # -1
                       THEN indexOfFrom(info, "\n", firstNewline + 1) ELSE -1
  IN IF secondNewline # -1 THEN substring(info, secondNewline + 1) ELSE <<>>

\* The value onRead sets on the characteristic being read
onRead(g, characteristic, level) ==
  IF characteristic = "name" THEN readName(g.personalInfo)
  ELSE IF characteristic = "email" THEN readEmail(g.personalInfo)
  ELSE IF characteristic = "phone" THEN readPhone(g.personalInfo)
  ELSE IF characteristic = "qrUrl" THEN g.qrCodeData
  ELSE <<level>>

\* Info texts of at most MaxReadLen characters, held by the store at boot
MaxReadLen == 4

ReadTexts == UNION { [1..n -> {"a", "\n"}] : n \in 0..MaxReadLen }

ReadStores ==
  { [ has |-> {NVS_KEY_INFO}, persInfo |-> t, qrData |-> <<>>, dispMode |-> INFO ] :
      t \in ReadTexts }

OnRead ==
  /\ pc = "run"
  /\ deviceConnected
  /\ \E characteristic \in Characteristics, level \in BatteryLevels :
       ev' = [ kind |-> "onRead", characteristic |-> characteristic,
               value |-> onRead(G, characteristic, level) ]
  /\ UNCHANGED << currentMode, requestedMode, personalInfo, qrCodeData,
                  displayUpdateRequestNeeded, clearDisplayRequested,
                  newInfoDataReceived, newQrDataReceived, lastButtonActionTime,
                  deviceConnected, lastBatteryUpdateTime, wakeStartTime, nvs, panel,
                  nvsOk, advertising, wakeArmed, pc, now, discPc, discAt,
                  preferences, save >>

ReadNext ==
  \/ Setup
  \/ OnConnect
  \/ OnRead

ReadSpec == InitWith(ReadStores) /\ [][ReadNext]_vars

(***************************************************************************)
(* The four transport callbacks between loop iterations                    *)
(***************************************************************************)
CallbackNext ==
  \/ Setup
  \/ ParseTick
  \/ OnConnect
  \/ OnDisconnectBegin
  \/ OnDisconnectEnd
  \/ OnWrite
  \/ OnRead

CallbackSpec == Init /\ [][CallbackNext]_vars

(***************************************************************************)
(* The shared Preferences handle, statement by statement: onWrite's        *)
(* begin / putString / putString / end against loop()'s begin / putUInt /  *)
(* end                                                                     *)
(***************************************************************************)
\* Preferences::begin: refused when the handle is already started, else the
\* namespace is opened and the handle is started
preferencesBegin(g) == [g EXCEPT !.preferences.started = TRUE]

\* Preferences::end: closes a started handle
preferencesEnd(g) == [g EXCEPT !.preferences.started = FALSE]

\* Preferences::putString / putUInt: nothing is written unless the handle is
\* started
putStarted(g, key, val) ==
  IF g.preferences.started THEN putString(g, key, val) ELSE g

PersistWrites == { MsgPersonal, MsgQrShort, MsgDisplayInfo }

\* onWrite up to "Save to NVS if data changed"
OnWriteDispatched ==
  /\ pc = "run"
  /\ deviceConnected
  /\ save.onWrite = "idle"
  /\ \E value \in PersistWrites :
       LET r == onWriteDispatch([G EXCEPT !.ev = Event("write", value, NoPre)],
                                trim(value))
       IN Becomes([r.g EXCEPT !.ev.dataChanged = r.dataChanged,
                              !.save.onWrite = IF r.dataChanged THEN "begin" ELSE "idle"])
  /\ UNCHANGED << pc, now, discPc, discAt >>

\* onWrite: preferences.begin(NVS_NAMESPACE, false)
OnWriteSaveBegin ==
  /\ save.onWrite = "begin"
  /\ Becomes([preferencesBegin(G) EXCEPT !.save.onWrite = "putInfo"])
  /\ UNCHANGED << pc, now, discPc, discAt >>

\* onWrite: if (newInfoDataReceived) preferences.putString(NVS_KEY_INFO, ...)
OnWriteSavePutInfo ==
  /\ save.onWrite = "putInfo"
  /\ LET g == IF newInfoDataReceived
              THEN putStarted(G, NVS_KEY_INFO, personalInfo) ELSE G
     IN Becomes([g EXCEPT !.save.onWrite = "putQr"])
  /\ UNCHANGED << pc, now, discPc, discAt >>

\* onWrite: if (newQrDataReceived) preferences.putString(NVS_KEY_QR, ...)
OnWriteSavePutQr ==
  /\ save.onWrite = "putQr"
  /\ LET g == IF newQrDataReceived
              THEN putStarted(G, NVS_KEY_QR, qrCodeData) ELSE G
     IN Becomes([g EXCEPT !.save.onWrite = "end"])
  /\ UNCHANGED << pc, now, discPc, discAt >>

\* onWrite: preferences.end()
OnWriteSaveEnd ==
  /\ save.onWrite = "end"
  /\ Becomes([preferencesEnd(G) EXCEPT !.save.onWrite = "idle"])
  /\ UNCHANGED << pc, now, discPc, discAt >>

\* A connected iteration of loop() up to "Save mode to NVS if changed"; with
\* the mode unchanged, the whole iteration
LoopToSave ==
  /\ pc = "run"
  /\ deviceConnected
  /\ save.loop = "idle"
  /\ \E click \in BOOLEAN, encOk \in EncoderOutcomes :
       LET a == [G EXCEPT !.ev = [Event("tick", <<>>, PreOf(G)) EXCEPT
                                    !.click = click, !.conn = TRUE]]
           b == IF click THEN handleButtonClick(a, now) ELSE a
           c == sendBatteryNotification(b, now)
           previousMode == c.currentMode
           r == ConnectedRequests(c)
           d == [r.g EXCEPT !.newInfoDataReceived = FALSE, !.newQrDataReceived = FALSE]
       IN IF d.currentMode # previousMode
          THEN Becomes([d EXCEPT !.save.loop = "begin",
                                 !.save.needsRedraw = r.needsRedraw,
                                 !.save.encOk = encOk])
          ELSE Becomes(TriggerUpdate(d, r.needsRedraw, encOk))
  /\ UNCHANGED << pc, now, discPc, discAt >>

\* loop(): preferences.begin(NVS_NAMESPACE, false)
LoopSaveBegin ==
  /\ save.loop = "begin"
  /\ Becomes([preferencesBegin(G) EXCEPT !.save.loop = "put"])
  /\ UNCHANGED << pc, now, discPc, discAt >>

\* loop(): preferences.putUInt(NVS_KEY_MODE, currentMode)
LoopSavePut ==
  /\ save.loop = "put"
  /\ Becomes([putStarted(G, NVS_KEY_MODE, currentMode) EXCEPT !.save.loop = "end"])
  /\ UNCHANGED << pc, now, discPc, discAt >>

\* loop(): preferences.end(), then the rest of the iteration
LoopSaveEnd ==
  /\ save.loop = "end"
  /\ LET g == [preferencesEnd(G) EXCEPT !.save = [@ EXCEPT !.loop = "idle",
                                                           !.needsRedraw = FALSE,
                                                           !.encOk = FALSE]]
     IN Becomes(TriggerUpdate(g, save.needsRedraw, save.encOk))
  /\ UNCHANGED << pc, now, discPc, discAt >>

PersistNext ==
  \/ Setup
  \/ OnConnect
  \/ OnWriteDispatched
  \/ OnWriteSaveBegin
  \/ OnWriteSavePutInfo
  \/ OnWriteSavePutQr
  \/ OnWriteSaveEnd
  \/ LoopToSave
  \/ LoopSaveBegin
  \/ LoopSavePut
  \/ LoopSaveEnd

PersistSpec == Init /\ [][PersistNext]_vars

(***************************************************************************)
(* A boot left alone: no write, click, connect or disconnect               *)
(***************************************************************************)
\* An iteration of loop() without a click
QuietTick ==
  /\ pc = "run"
  /\ \E encOk \in EncoderOutcomes, d \in TickDurations : Tick(FALSE, encOk, d)

QuietNext ==
  \/ BootSetup
  \/ QuietTick

QuietSpec == InitWith(BootStores) /\ [][QuietNext]_vars

(***************************************************************************)
(* Claims                                                                  *)
(***************************************************************************)
IsTick == ev.kind = "tick"

PersistedMode == getUInt(nvs, NVS_KEY_MODE, INFO)

\* C1: Priority law.  A connected loop iteration that starts with a clear
\* request pending and a mode change pending (requestedMode # currentMode)
\* ends with currentMode = BLANK and the persisted mode key = BLANK, and the
\* requested mode has not become the current mode.
C1_ClearWins ==
  [][ ( /\ pc = "run"
        /\ ev'.kind = "tick"
        /\ deviceConnected
        /\ clearDisplayRequested
        /\ requestedMode # currentMode )
      => ( /\ currentMode' = BLANK
           /\ NVS_KEY_MODE \in nvs'.has
           /\ nvs'.dispMode = BLANK
           /\ (requestedMode # BLANK => currentMode' # requestedMode) ) ]_vars

\* C1 witness: such an iteration has run from a mode other than BLANK, with
\* another mode than BLANK requested
C1_Witness ==
  /\ IsTick
  /\ ev.conn
  /\ ev.pre.clearDisplayRequested
  /\ ev.pre.requestedMode # ev.pre.currentMode
  /\ ev.pre.currentMode # BLANK
  /\ ev.pre.requestedMode # BLANK
  /\ ev.clears = 1
  /\ currentMode = BLANK

\* What a power cycle would load: setup() run on fresh globals and the store
Reloaded ==
  setup(Globals(nvs, panel.shown), TRUE, TRUE, 0)

\* C2: Round-trip.  Once setup() has opened the store, in every state between
\* two steps (so also at the end of every loop iteration) a power cycle that
\* runs setup() on the persisted store yields the currentMode, personalInfo
\* and qrCodeData now in memory.
C2_RoundTrip ==
  (pc \in {"run", "sleep"} /\ nvsOk)
  => ( /\ Reloaded.currentMode = currentMode
       /\ Reloaded.personalInfo = personalInfo
       /\ Reloaded.qrCodeData = qrCodeData )

\* C2 witness: the end of an iteration with all three fields changed from
\* their defaults and all three keys in the store
C2_Witness ==
  /\ IsTick
  /\ nvsOk
  /\ nvs.has = {NVS_KEY_INFO, NVS_KEY_QR, NVS_KEY_MODE}
  /\ currentMode = QR_CODE
  /\ qrCodeData # <<>>
  /\ personalInfo # DefaultPersonalInfo

\* C3 (as claimed): at the end of every loop iteration, requestedMode = QR_CODE
\* or currentMode = QR_CODE implies qrCodeData is non-empty.
C3_QrModeHasData ==
  IsTick => ((requestedMode = QR_CODE \/ currentMode = QR_CODE) => Len(qrCodeData) > 0)

\* C4 (as claimed): when deep sleep is entered (the store opened at boot,
\* onDisconnect ran to its end) no request is pending: clearDisplayRequested
\* is false and requestedMode = currentMode = persisted mode.
C4_NothingPendingAtSleep ==
  (ev.slept /\ nvsOk /\ discPc = "idle")
  => ( /\ ~clearDisplayRequested
       /\ requestedMode = currentMode
       /\ PersistedMode = currentMode )

\* C5 (as claimed): under every interleaving of onDisconnect's two field
\* writes with loop iterations, deep sleep is entered no earlier than
\* IDLE_TIMEOUT_MS after the latest disconnect event.
C5_SleepAfterDisconnectBudget ==
  (pc = "sleep" /\ discAt >= 0) => now - discAt >= IDLE_TIMEOUT_MS

\* C6: Idle sleep is reached.  A disconnected, running device eventually
\* enters deep sleep unless a connection arrives; an iteration enters deep
\* sleep only once IDLE_TIMEOUT_MS have elapsed since wakeStartTime; when it
\* does, advertising is stopped, the panel is in low-power hold and the button
\* wake source is armed; and deep sleep is left only by a fresh boot.
C6_IdleSleepReached ==
  /\ ((pc = "run" /\ ~deviceConnected) ~> (pc = "sleep" \/ deviceConnected))
  /\ [][ (ev'.kind = "tick" /\ ev'.slept) => Elapsed(now, wakeStartTime) >= IDLE_TIMEOUT_MS ]_vars
  /\ [](pc = "sleep" => (ev.slept /\ ~advertising /\ panel.hold /\ wakeArmed))
  /\ [][ pc = "sleep" => (pc' = "boot" /\ now' = 0 /\ ~deviceConnected') ]_vars

\* C6 witness: deep sleep entered by an iteration that saw the device
\* disconnected, the idle budget after the idle-timer origin
C6_Witness ==
  /\ pc = "sleep"
  /\ IsTick
  /\ ev.slept
  /\ ~ev.conn
  /\ now - wakeStartTime >= IDLE_TIMEOUT_MS
  /\ ~advertising
  /\ panel.hold

\* C7: No sleep while connected.  No loop iteration that observes
\* deviceConnected = TRUE enters deep sleep.
C7_NoSleepWhileConnected ==
  (IsTick /\ ev.conn) => (~ev.slept /\ pc = "run")

\* C7 witness: a connected iteration that ran (and sent the battery
\* notification) at least IDLE_TIMEOUT_MS after wakeStartTime, and did not sleep
C7_Witness ==
  /\ IsTick
  /\ ev.conn
  /\ ev.notified
  /\ lastBatteryUpdateTime - wakeStartTime >= IDLE_TIMEOUT_MS
  /\ pc = "run"

\* C8: A button click does not move the sleep deadline.  wakeStartTime is
\* written only by boot (reset of the globals, setup) and by onDisconnect, and
\* an iteration enters deep sleep exactly when it sees the device disconnected
\* IDLE_TIMEOUT_MS or more after wakeStartTime, with or without a click.
C8_ClickKeepsDeadline ==
  [][ /\ (wakeStartTime' # wakeStartTime => ev'.kind \in {"reset", "setup", "disconnected"})
      /\ ((pc = "run" /\ ev'.kind = "tick")
          => /\ wakeStartTime' = wakeStartTime
             /\ ev'.slept <=> (~deviceConnected /\ Elapsed(now, wakeStartTime) >= IDLE_TIMEOUT_MS)) ]_vars

\* C8 witness: an iteration with an accepted click that still entered deep
\* sleep at the deadline wakeStartTime + IDLE_TIMEOUT_MS
C8_Witness ==
  /\ IsTick
  /\ ev.click
  /\ ev.accepted
  /\ ev.slept
  /\ lastButtonActionTime = now
  /\ now - wakeStartTime = IDLE_TIMEOUT_MS

\* C9: Oversize QR payload is a no-op.  A data:qr: write whose payload is
\* longer than MAX_QR_INPUT_STRING_LENGTH leaves qrCodeData, currentMode,
\* requestedMode, the pending flags and the store unchanged.
C9_OversizeQrNoOp ==
  [][ ( /\ ev'.kind = "write"
        /\ IsQrWrite(ev'.value)
        /\ Len(QrPayloadOf(ev'.value)) > MAX_QR_INPUT_STRING_LENGTH )
      => UNCHANGED << qrCodeData, currentMode, requestedMode, clearDisplayRequested,
                      newInfoDataReceived, newQrDataReceived, nvs >> ]_vars

\* C9 witness: an oversize payload was written while other QR data was held
\* and another mode than QR_CODE was requested
C9_Witness ==
  /\ ev.kind = "write"
  /\ ev.value = MsgQrOver
  /\ Len(QrPayloadOf(ev.value)) = MAX_QR_INPUT_STRING_LENGTH + 1
  /\ qrCodeData # <<>>
  /\ requestedMode # QR_CODE
  /\ ~ev.dataChanged

\* A data:qr: value whose payload has 1..MAX_QR_INPUT_STRING_LENGTH characters
IsValidQrWrite(value) ==
  /\ IsQrWrite(value)
  /\ Len(QrPayloadOf(value)) >= 1
  /\ Len(QrPayloadOf(value)) <= MAX_QR_INPUT_STRING_LENGTH

\* A full repaint that shows the QR screen for text: the symbol, or the error
\* message drawQrScreen puts in its place
IsQrScreenFor(shown, text) ==
  \E encOk \in EncoderOutcomes : shown = drawQrScreen(text, encOk)

\* C10 (as claimed): every data:qr: write with a payload C of 1..90
\* characters, in a connected state, sets qrCodeData = C and
\* requestedMode = QR_CODE.
C10_SetQrAlwaysRequestsQr ==
  [][ (ev'.kind = "write" /\ deviceConnected /\ IsValidQrWrite(ev'.value))
      => ( /\ qrCodeData' = QrPayloadOf(ev'.value)
           /\ requestedMode' = QR_CODE ) ]_vars

\* C10 (amended): every data:qr: write with a payload C of 1..90 characters
\* leaves qrCodeData = C; when C differs from the qrCodeData held before, the
\* write also sets requestedMode = QR_CODE, and the connected loop iteration
\* that follows it with no click ends with currentMode = QR_CODE after exactly
\* one full repaint, of the QR screen for C; when C equals the qrCodeData held,
\* the write changes nothing.
C10_SetQrSwitchesWhenChanged ==
  [][ /\ (ev'.kind = "write" /\ deviceConnected /\ IsValidQrWrite(ev'.value))
         => /\ qrCodeData' = QrPayloadOf(ev'.value)
            /\ IF qrCodeData # QrPayloadOf(ev'.value)
               THEN requestedMode' = QR_CODE /\ ev'.dataChanged
               ELSE UNCHANGED << requestedMode, currentMode, clearDisplayRequested,
                                 newInfoDataReceived, newQrDataReceived, nvs >>
      /\ ( /\ ev.kind = "write"
           /\ IsValidQrWrite(ev.value)
           /\ ev.dataChanged
           /\ deviceConnected
           /\ ev'.kind = "tick"
           /\ ~ev'.click )
         => /\ currentMode' = QR_CODE
            /\ ev'.paints = 1
            /\ ev'.clears = 0
            /\ IsQrScreenFor(panel'.shown, qrCodeData) ]_vars

\* C10 witness: the end of a connected iteration without click that found
\* new QR data pending in another mode, and switched to QR_CODE and painted it
C10_Witness ==
  /\ IsTick
  /\ ev.conn
  /\ ~ev.click
  /\ ev.pre.newQrDataReceived
  /\ ev.pre.requestedMode = QR_CODE
  /\ ev.pre.currentMode # QR_CODE
  /\ currentMode = QR_CODE
  /\ ev.paints = 1
  /\ panel.shown = [ kind |-> "qr", lines |-> <<qrCodeData>> ]

\* The value written is the mode request for mode (display:info, display:qr)
IsModeRequestFor(value, mode) ==
  \/ mode = INFO /\ equalsIgnoreCase(trim(value), CMD_DISPLAY_INFO)
  \/ mode = QR_CODE /\ equalsIgnoreCase(trim(value), CMD_DISPLAY_QR)

\* Nothing is pending: no clear, no mode change, no new content, and the
\* initial redraw that boot marks as needed has been consumed
NothingPending ==
  /\ ~clearDisplayRequested
  /\ requestedMode = currentMode
  /\ ~newInfoDataReceived
  /\ ~newQrDataReceived
  /\ ~displayUpdateRequestNeeded

\* C11: Idempotence of mode requests.  A display:info or display:qr write
\* whose mode is currentMode, with nothing else pending, writes no persisted
\* key, and the loop iteration that follows it (without a click) repaints
\* nothing, clears nothing and writes no persisted key.
C11_ModeRequestIdempotent ==
  [][ /\ ( /\ ev'.kind = "write"
           /\ IsModeRequestFor(ev'.value, currentMode)
           /\ NothingPending )
         => /\ NothingPending'
            /\ UNCHANGED << currentMode, nvs, panel >>
      /\ ( /\ ev.kind = "write"
           /\ IsModeRequestFor(ev.value, currentMode)
           /\ NothingPending
           /\ ev'.kind = "tick"
           /\ ~ev'.click )
         => /\ ev'.paints = 0
            /\ ev'.clears = 0
            /\ ev'.puts = {}
            /\ UNCHANGED << currentMode, requestedMode, nvs >>
            /\ panel'.shown = panel.shown ]_vars

\* C11 witness: the end of an iteration that followed a display:qr write made
\* while QR_CODE was the current mode and nothing was pending
C11_Witness ==
  /\ IsTick
  /\ ~ev.click
  /\ IsModeRequestFor(ev.pre.after, QR_CODE)
  /\ ev.pre.currentMode = QR_CODE
  /\ ev.pre.requestedMode = QR_CODE
  /\ ~ev.pre.clearDisplayRequested
  /\ ~ev.pre.newQrDataReceived
  /\ ~ev.pre.displayUpdateRequestNeeded
  /\ ev.paints = 0
  /\ ev.puts = {}
  /\ currentMode = QR_CODE

\* The rotation of the button: INFO -> QR_CODE (BLANK when there is no QR
\* data), QR_CODE -> BLANK, BLANK -> INFO
Rotation(mode, qr) ==
  CASE mode = INFO /\ qr = <<>> -> BLANK
    [] mode = INFO /\ qr # <<>> -> QR_CODE
    [] mode = QR_CODE -> BLANK
    [] mode = BLANK -> INFO

\* C12 (as claimed): the loop iteration of an accepted click ends with
\* currentMode equal to the rotation target of the mode it started in.
C12_ClickReachesTarget ==
  [][ (ev'.kind = "tick" /\ ev'.accepted)
      => currentMode' = Rotation(currentMode, qrCodeData) ]_vars

\* C12 (amended): a click outside the cooldown sets requestedMode to the
\* rotation target of currentMode and qrCodeData; the loop iteration of an
\* accepted click ends with currentMode = requestedMode = that target, unless
\* it is a connected iteration with a clear request pending: there the clear
\* wins and the iteration ends with currentMode = BLANK.
C12_ClickReachesTargetUnlessClear ==
  /\ []( (pc = "run" /\ Elapsed(now, lastButtonActionTime) >= BUTTON_COOLDOWN_MS)
         => handleButtonClick(G, now).requestedMode = Rotation(currentMode, qrCodeData) )
  /\ [][ (ev'.kind = "tick" /\ ev'.accepted)
         => IF deviceConnected /\ clearDisplayRequested
            THEN currentMode' = BLANK
            ELSE /\ currentMode' = Rotation(currentMode, qrCodeData)
                 /\ requestedMode' = currentMode' ]_vars

\* C12 witness: an accepted click in a disconnected iteration took the panel
\* from INFO to QR_CODE
C12_Witness ==
  /\ IsTick
  /\ ev.accepted
  /\ ~ev.conn
  /\ ev.pre.currentMode = INFO
  /\ qrCodeData # <<>>
  /\ currentMode = QR_CODE
  /\ requestedMode = QR_CODE
  /\ ev.paints = 1

\* C13: Cooldown.  An accepted click stamps lastButtonActionTime with its
\* arrival time, nothing but an accepted click (and boot) writes that stamp,
\* and a click that arrives less than BUTTON_COOLDOWN_MS after the stamp is
\* dropped before it writes anything: of two clicks less than
\* BUTTON_COOLDOWN_MS apart, the first accepted, only the first is accepted.
C13_CooldownDropsSecondClick ==
  /\ [][ (ev'.kind = "tick" /\ ev'.accepted)
         => (ev'.click /\ lastButtonActionTime' = now) ]_vars
  /\ [][ lastButtonActionTime' # lastButtonActionTime
         => (ev'.kind = "reset" \/ (ev'.kind = "tick" /\ ev'.accepted)) ]_vars
  /\ []( (pc = "run" /\ Elapsed(now, lastButtonActionTime) < BUTTON_COOLDOWN_MS)
         => handleButtonClick(G, now) = G )
  /\ [][ (ev'.kind = "tick" /\ ev'.click
          /\ Elapsed(now, lastButtonActionTime) < BUTTON_COOLDOWN_MS)
         => (~ev'.accepted /\ lastButtonActionTime' = lastButtonActionTime) ]_vars

\* C13 witness: a click dropped BUTTON_COOLDOWN_MS - 1 after an accepted one
C13_Witness ==
  /\ IsTick
  /\ ev.click
  /\ ~ev.accepted
  /\ lastButtonActionTime > 0
  /\ now - lastButtonActionTime >= BUTTON_COOLDOWN_MS - 1
  /\ requestedMode = ev.pre.requestedMode

\* The mode-change step of an iteration finds QR_CODE requested with no QR
\* data: the request is pending when button.tick() has returned
QrRequestWithoutData ==
  /\ requestedMode = QR_CODE
  /\ currentMode # QR_CODE
  /\ qrCodeData = <<>>

\* C14 (as claimed): a loop iteration that finds QR_CODE requested, another
\* mode current and qrCodeData empty resets requestedMode to currentMode and
\* does nothing else: currentMode unchanged, no repaint, no clear, no
\* persisted key written.
C14_RejectedQrDoesNothing ==
  [][ (QrRequestWithoutData /\ ev'.kind = "tick" /\ ~ev'.accepted)
      => /\ requestedMode' = currentMode
         /\ currentMode' = currentMode
         /\ ev'.paints = 0
         /\ ev'.clears = 0
         /\ ev'.puts = {}
         /\ nvs' = nvs ]_vars

\* C14 (amended): such an iteration, unless it is a connected one with a
\* clear request pending, resets requestedMode to currentMode, leaves
\* currentMode unchanged, clears nothing and writes no persisted key; it
\* repaints only if the initial redraw marked at boot is still pending (and
\* the current mode is not BLANK), and then once, the current mode's screen.
C14_RejectedQrRevertsRequest ==
  [][ ( /\ QrRequestWithoutData
        /\ ev'.kind = "tick"
        /\ ~ev'.accepted
        /\ ~(deviceConnected /\ clearDisplayRequested) )
      => /\ requestedMode' = currentMode
         /\ currentMode' = currentMode
         /\ ev'.clears = 0
         /\ ev'.puts = {}
         /\ nvs' = nvs
         /\ ev'.paints = (IF displayUpdateRequestNeeded /\ currentMode # BLANK THEN 1 ELSE 0)
         /\ ev'.paints = 0 => panel'.shown = panel.shown ]_vars

\* C14 witness: a disconnected iteration found QR_CODE requested over INFO
\* with no QR data, and reverted the request without repainting
C14_Witness ==
  /\ IsTick
  /\ ~ev.conn
  /\ ~ev.accepted
  /\ ev.pre.requestedMode = QR_CODE
  /\ ev.pre.currentMode = INFO
  /\ ~ev.pre.displayUpdateRequestNeeded
  /\ qrCodeData = <<>>
  /\ requestedMode = INFO
  /\ currentMode = INFO
  /\ ev.paints = 0

\* The latest step repainted in QR_CODE mode and the encoder failed: the
\* panel shows the error string in place of the symbol
QrRedrawFailed ==
  /\ ev.kind \in {"setup", "tick"}
  /\ ev.paints > 0
  /\ currentMode = QR_CODE
  /\ panel.shown = [ kind |-> "message", lines |-> <<TextQrFailed>> ]

\* C15 (as claimed): when the encoder fails during a redraw in QR_CODE mode,
\* currentMode, requestedMode and the persisted mode are QR_CODE, and the next
\* loop iteration, with no write, click or boot in between, repaints nothing.
C15_QrFailureNotRetried ==
  /\ [](QrRedrawFailed => (requestedMode = QR_CODE /\ PersistedMode = QR_CODE))
  /\ [][ (QrRedrawFailed /\ ev'.kind = "tick" /\ ~ev'.click)
         => (ev'.paints = 0 /\ panel'.shown = panel.shown) ]_vars

\* C16 (as claimed): when the scaled symbol plus quiet zone exceeds the width
\* or the height of the target area, drawQrCode reports failure, paints no
\* module, and the error string is painted in place of the symbol.
C16_GeometryFailureReported ==
  ( /\ ev.kind = "drawQrScreen"
    /\ \/ (ev.n + 2 * QR_QUIET_ZONE_MODULES) * FIXED_QR_SCALE > ev.w
       \/ (ev.n + 2 * QR_QUIET_ZONE_MODULES) * FIXED_QR_SCALE > ev.h )
  => ( /\ ~ev.ok
       /\ ev.modules = {}
       /\ panel.shown = [ kind |-> "message", lines |-> <<TextQrFailed>> ] )

\* What setup() must leave in a field: the stored value when the store
\* opened and holds the key, the default otherwise
BootValue(key, default) ==
  IF nvsOk /\ key \in nvs.has THEN nvs[key] ELSE default

\* C17 (as claimed): after setup(), every field whose key is absent, and
\* every field when the store cannot be opened, holds its default (INFO, "",
\* the placeholder name/title text); every present key is loaded exactly;
\* and requestedMode = currentMode.
C17_BootDefaults ==
  ev.kind = "setup"
  => /\ currentMode = BootValue(NVS_KEY_MODE, INFO)
     /\ qrCodeData = BootValue(NVS_KEY_QR, <<>>)
     /\ personalInfo = BootValue(NVS_KEY_INFO, DefaultPersonalInfo)
     /\ requestedMode = currentMode

\* C17 (amended): as claimed when the store opens; when it cannot be opened,
\* currentMode = requestedMode = INFO, qrCodeData = "" and personalInfo is
\* the text the program starts with ("No Info Received Yet. ..."), not the
\* placeholder name/title text.
C17_BootDefaultsByOutcome ==
  ev.kind = "setup"
  => /\ currentMode = BootValue(NVS_KEY_MODE, INFO)
     /\ qrCodeData = BootValue(NVS_KEY_QR, <<>>)
     /\ personalInfo = (IF nvsOk THEN BootValue(NVS_KEY_INFO, DefaultPersonalInfo)
                                 ELSE InitialPersonalInfo)
     /\ requestedMode = currentMode

\* C17 witness: setup() could not open a store that holds all three keys
C17_Witness ==
  /\ ev.kind = "setup"
  /\ ~nvsOk
  /\ nvs.has = {NVS_KEY_INFO, NVS_KEY_QR, NVS_KEY_MODE}
  /\ nvs.dispMode = QR_CODE
  /\ currentMode = INFO
  /\ personalInfo = InitialPersonalInfo

ValidModes == { INFO, QR_CODE, BLANK }

\* C18 (as claimed): whatever unsigned integer is stored under the mode key,
\* currentMode is one of INFO, QR_CODE, BLANK in every state, and INFO right
\* after a boot that read an ordinal naming no mode.
C18_ModeAlwaysValid ==
  /\ currentMode \in ValidModes
  /\ ( /\ ev.kind = "setup"
       /\ nvsOk
       /\ NVS_KEY_MODE \in nvs.has
       /\ nvs.dispMode \notin ValidModes )
     => currentMode = INFO

\* An inbound string the specification does not recognize: after trimming it
\* is none of the three commands (whatever the case) and does not begin with
\* one of the two data prefixes, letter for letter
BeginsExactly(s, prefix) ==
  Len(s) >= Len(prefix) /\ \A i \in 1..Len(prefix) : s[i] = prefix[i]

Unrecognized(value) ==
  LET s == trim(value)
  IN /\ \A cmd \in { CMD_CLEAR, CMD_DISPLAY_INFO, CMD_DISPLAY_QR } :
          ~equalsIgnoreCase(s, cmd)
     /\ ~BeginsExactly(s, PREFIX_PERSONAL)
     /\ ~BeginsExactly(s, PREFIX_QR)

\* C19: a write of an unrecognized string leaves currentMode, requestedMode,
\* personalInfo, qrCodeData, every pending flag and every persisted key
\* unchanged.
C19_UnrecognizedChangesNothing ==
  [][ (ev'.kind = "write" /\ Unrecognized(ev'.value))
      => UNCHANGED << currentMode, requestedMode, personalInfo, qrCodeData,
                      displayUpdateRequestNeeded, clearDisplayRequested,
                      newInfoDataReceived, newQrDataReceived, nvs >> ]_vars

\* C19 witness: DATA:QR:x arrived while QR data, a QR screen and a pending
\* clear were in place, and the QR data is still what it was
C19_Witness ==
  /\ ev.kind = "write"
  /\ ev.value = MsgUpperPrefix
  /\ Unrecognized(ev.value)
  /\ currentMode = QR_CODE
  /\ qrCodeData = <<"u", "1">>
  /\ clearDisplayRequested

\* C20: a loop iteration samples the battery and notifies only when it
\* observes the device connected and at least BATTERY_UPDATE_INTERVAL_MS have
\* elapsed since the previous notification (since boot before the first
\* one), and it then restarts the interval; an iteration that observes the
\* device disconnected neither samples nor notifies.
C20_TelemetryGated ==
  [][ /\ (ev'.kind = "tick" /\ ev'.notified)
         => /\ deviceConnected
            /\ ev'.conn
            /\ now - lastBatteryUpdateTime >= BATTERY_UPDATE_INTERVAL_MS
            /\ lastBatteryUpdateTime' = now
      \* lastBatteryUpdateTime is the time of the previous notification
      /\ lastBatteryUpdateTime' # lastBatteryUpdateTime
         => ev'.kind = "tick" /\ ev'.notified ]_vars

\* C20 witness: a connected iteration notified when two intervals had passed
\* since boot
C20_Witness ==
  /\ ev.kind = "tick"
  /\ ev.notified
  /\ deviceConnected
  /\ lastBatteryUpdateTime = 2 * BATTERY_UPDATE_INTERVAL_MS

\* The k-th newline-delimited segment of a text, empty when there is none
RECURSIVE Segment(_, _)
Segment(s, k) ==
  LET cut == IF \E i \in 1..Len(s) : s[i] = "\n"
             THEN CHOOSE i \in 1..Len(s) : s[i] = "\n" /\ \A j \in 1..(i - 1) : s[j] # "\n"
             ELSE Len(s) + 1
  IN IF k = 1 THEN SubSeq(s, 1, cut - 1)
     ELSE IF cut > Len(s) THEN <<>>
     ELSE Segment(SubSeq(s, cut + 1, Len(s)), k - 1)

\* C21 (as claimed): a read of the name, email/title and phone values returns
\* the first, second and third newline-delimited segment of personalInfo, and
\* the empty string when that segment does not exist.
C21_ReadBackSegments ==
  ev.kind = "onRead"
  => /\ ev.characteristic = "name" => ev.value = Segment(personalInfo, 1)
     /\ ev.characteristic = "email" => ev.value = Segment(personalInfo, 2)
     /\ ev.characteristic = "phone" => ev.value = Segment(personalInfo, 3)

\* The panel shows what updateDisplay paints for the current mode and text
\* (the encoder's failure message counts as the rendering of its QR text)
PanelShowsCurrent ==
  \E encOk \in EncoderOutcomes : panel.shown = Screen(G, encOk)

\* C22 (as claimed): at the end of every connected loop tick the content last
\* painted on the panel corresponds to currentMode and the current text.
C22_PanelConsistentWhenConnected ==
  (ev.kind = "tick" /\ ev.conn) => PanelShowsCurrent

\* C23: a loop tick (connected or disconnected) writes the persisted mode key
\* exactly when currentMode at its end differs from currentMode at its start,
\* the value written is the new currentMode, and the info and qr keys are
\* never written.
C23_ModeOnlyPersistence ==
  [][ ev'.kind = "tick"
      => /\ ev'.puts = (IF currentMode' # currentMode THEN {NVS_KEY_MODE} ELSE {})
         /\ currentMode' # currentMode
            => /\ NVS_KEY_MODE \in nvs'.has
               /\ nvs'[NVS_KEY_MODE] = currentMode'
         /\ currentMode' = currentMode => nvs' = nvs
         /\ nvs'[NVS_KEY_INFO] = nvs[NVS_KEY_INFO]
         /\ nvs'[NVS_KEY_QR] = nvs[NVS_KEY_QR]
         /\ nvs'.has \ {NVS_KEY_MODE} = nvs.has \ {NVS_KEY_MODE} ]_vars

\* C23 witness: a disconnected tick took a click from QR_CODE to BLANK and
\* saved the mode, the stored qr text left as it was
C23_Witness ==
  /\ ev.kind = "tick"
  /\ ~ev.conn
  /\ ev.pre.currentMode = QR_CODE
  /\ currentMode = BLANK
  /\ ev.puts = {NVS_KEY_MODE}
  /\ nvs[NVS_KEY_MODE] = BLANK
  /\ nvs[NVS_KEY_QR] = qrCodeData

\* The last value written to requestedMode before a tick acts on it: the
\* click's target when the tick accepts a click, else the value left by the
\* latest write
LastRequest(accepted) ==
  IF accepted THEN Rotation(currentMode, qrCodeData) ELSE requestedMode

\* C24: with no clear pending, a tick acts only on the last value written to
\* requestedMode: currentMode becomes that value (or stays, when it is
\* QR_CODE without QR data), nothing remains requested afterwards, the tick
\* performs at most one repaint or clear, and the persisted mode changes only
\* to the new currentMode.
C24_NoQueueing ==
  [][ (ev'.kind = "tick" /\ ~(deviceConnected /\ clearDisplayRequested))
      => LET last == LastRequest(ev'.accepted)
         IN /\ currentMode' = (IF last = QR_CODE /\ qrCodeData = <<>>
                               THEN currentMode ELSE last)
            /\ requestedMode' = currentMode'
            /\ ev'.paints + ev'.clears <= 1
            /\ currentMode' # currentMode => ev'.paints + ev'.clears = 1
            /\ PersistedMode' = (IF currentMode' # currentMode
                                 THEN currentMode' ELSE PersistedMode) ]_vars

\* C24 witness: display:info was written while QR_CODE was current, then the
\* tick accepted a click: the screen went to BLANK and INFO was never shown
C24_Witness ==
  /\ ev.kind = "tick"
  /\ ev.accepted
  /\ ~ev.pre.clearDisplayRequested
  /\ ev.pre.currentMode = QR_CODE
  /\ ev.pre.requestedMode = INFO
  /\ currentMode = BLANK
  /\ requestedMode = BLANK
  /\ PersistedMode = BLANK

\* C25: at the end of setup() and of every loop tick the panel is in
\* low-power hold, and the step made at most one full repaint or full clear,
\* so each one is followed by display.hibernate() before another paint starts.
C25_PanelReturnsToHold ==
  ev.kind \in {"setup", "tick"}
  => /\ panel.hold
     /\ ev.paints + ev.clears <= 1

\* C25 witness: a tick repainted the QR screen and left the panel in hold
C25_Witness ==
  /\ ev.kind = "tick"
  /\ ev.paints = 1
  /\ panel.shown.kind = "qr"
  /\ panel.hold

\* The steps made by transport callbacks
CallbackKinds == { "write", "onRead", "connect", "disconnect", "disconnected" }

\* C26: no transport callback (onWrite, onRead, onConnect, onDisconnect)
\* performs a panel operation: a callback step leaves the panel as it was,
\* and every change of the panel is made by setup() or by a loop tick.
C26_SinglePanelWriter ==
  [][ /\ ev'.kind \in CallbackKinds => UNCHANGED panel
      /\ panel' # panel => ev'.kind \in {"setup", "tick"} ]_vars

\* C26 witness: the clear command was written while the QR screen was shown,
\* and the panel still shows it
C26_Witness ==
  /\ ev.kind = "write"
  /\ equalsIgnoreCase(trim(ev.value), CMD_CLEAR)
  /\ clearDisplayRequested
  /\ currentMode = QR_CODE
  /\ panel.shown.kind = "qr"
  /\ panel.hold

\* C27: whenever the cooldown has passed and currentMode is INFO, QR_CODE or
\* BLANK, handleButtonClick leaves requestedMode # currentMode and sets
\* lastButtonActionTime to the current time, whatever requestedMode and
\* qrCodeData are; so every click a tick accepts starts the cooldown and the
\* "cooldown not started" branch is never taken.
C27_AcceptedClickStartsCooldown ==
  /\ []( ( /\ pc = "run"
           /\ currentMode \in ValidModes
           /\ Elapsed(now, lastButtonActionTime) >= BUTTON_COOLDOWN_MS )
         => LET h == handleButtonClick(G, now)
            IN /\ h.ev.accepted
               /\ h.requestedMode # h.currentMode
               /\ h.requestedMode = Rotation(currentMode, qrCodeData)
               /\ h.lastButtonActionTime = now )
  /\ [][ (ev'.kind = "tick" /\ ev'.accepted)
         => /\ Elapsed(now, lastButtonActionTime) >= BUTTON_COOLDOWN_MS
            /\ lastButtonActionTime' = now ]_vars

\* C27 witness: a click accepted in BLANK while INFO was already requested by
\* a write: the request did not change, and the cooldown started all the same
C27_Witness ==
  /\ ev.kind = "tick"
  /\ ev.accepted
  /\ ev.pre.currentMode = BLANK
  /\ ev.pre.requestedMode = INFO
  /\ currentMode = INFO
  /\ lastButtonActionTime = now

\* The panel shows what a boot from the store would paint: the rendering of
\* the persisted mode with the persisted text
PanelShowsStored ==
  \E encOk \in EncoderOutcomes : panel.shown = Screen(Reloaded, encOk)

\* C28 (as claimed): whenever deep sleep is entered, the content last painted
\* on the panel corresponds to the persisted mode and the persisted text.
C28_SleepShowsStoredState ==
  pc = "sleep" => PanelShowsStored

\* C29 (as claimed): a connected tick that consumes a clear request ends with
\* currentMode = requestedMode = BLANK, whatever currentMode was before, so
\* no mode request survives the clear.
C29_ClearLeavesNoRequest ==
  (ev.kind = "tick" /\ ev.conn /\ ev.pre.clearDisplayRequested)
  => /\ ~clearDisplayRequested
     /\ currentMode = BLANK
     /\ requestedMode = BLANK

\* C30 (as claimed): when onWrite's content persistence and a loop tick's
\* mode persistence interleave statement by statement on the shared
\* preferences handle, both writes take effect: once both sequences have
\* ended, the persisted mode equals currentMode and the persisted info and qr
\* text equal the text in memory.
C30_PersistenceSurvivesInterleaving ==
  (pc = "run" /\ nvsOk /\ save.onWrite = "idle" /\ save.loop = "idle")
  => /\ Reloaded.currentMode = currentMode
     /\ Reloaded.personalInfo = personalInfo
     /\ Reloaded.qrCodeData = qrCodeData

\* C31 (as claimed): a tick drops a click only if some earlier click was
\* accepted less than BUTTON_COOLDOWN_MS before it (lastButtonActionTime is
\* 0 until a click is accepted, and the time of the latest accepted click
\* afterwards); so the first click after boot is accepted however soon it
\* arrives.
C31_DroppedOnlyAfterAcceptedClick ==
  [][ (ev'.kind = "tick" /\ ev'.click /\ ~ev'.accepted)
      => /\ lastButtonActionTime > 0
         /\ Elapsed(now, lastButtonActionTime) < BUTTON_COOLDOWN_MS ]_vars

\* C32 (as claimed): from boot with no write, click, connect or disconnect,
\* the only full paint is the initial one in setup(): no loop tick repaints,
\* whatever the persisted mode.
C32_OneRepaintPerBoot ==
  /\ ev.kind = "setup" => ev.paints = 1
  /\ ev.kind = "tick" => ev.paints = 0

IsInfoWrite(value) == startsWith(trim(value), PREFIX_PERSONAL)

\* C33 (as claimed): a data:personal: write that carries the payload of the
\* previous info write (here: the value written just before the latest tick,
\* nothing written since) changes no state, sets no flag, writes no persisted
\* key and leaves the panel alone.
C33_ResendInfoIsNoOp ==
  [][ ( /\ ev.kind = "tick"
        /\ ev'.kind = "write"
        /\ IsInfoWrite(ev'.value)
        /\ ev.pre.after = ev'.value )
      => /\ UNCHANGED << currentMode, requestedMode, personalInfo, qrCodeData,
                         displayUpdateRequestNeeded, clearDisplayRequested,
                         newInfoDataReceived, newQrDataReceived, nvs, panel >>
         /\ ~ev'.dataChanged
         /\ ev'.puts = {} ]_vars

\* The write is the clear command
IsClearWrite(value) == equalsIgnoreCase(trim(value), CMD_CLEAR)

\* A content flag is pending
ContentPending == newInfoDataReceived \/ newQrDataReceived

\* C34, first part: a pending clear and a pending content flag never coexist
C34_FlagsExclusive == ~(clearDisplayRequested /\ ContentPending)

\* C34, second part: an accepted content write leaves its flag pending and no
\* clear pending; a clear command leaves the clear pending and no content flag
C34_LastWriteCancels ==
  [][ /\ (ev'.kind = "write" /\ ev'.dataChanged)
         => (ContentPending' /\ ~clearDisplayRequested')
      /\ (ev'.kind = "write" /\ IsClearWrite(ev'.value))
         => (clearDisplayRequested' /\ ~ContentPending') ]_vars

\* C34, third part: a connected tick without a click that finds content
\* pending clears nothing; one that finds a clear pending paints nothing, and
\* neither does the tick without a click that follows it directly
C34_OnlyLaterActedOn ==
  [][ /\ ( /\ ev'.kind = "tick" /\ ev'.conn /\ ~ev'.click
           /\ (ev'.pre.newInfoDataReceived \/ ev'.pre.newQrDataReceived) )
         => ev'.clears = 0
      /\ ( /\ ev'.kind = "tick" /\ ev'.conn /\ ~ev'.click
           /\ ev'.pre.clearDisplayRequested )
         => ev'.paints = 0
      /\ ( /\ ev.kind = "tick" /\ ev.conn /\ ~ev.click
           /\ ev.pre.clearDisplayRequested
           /\ ev'.kind = "tick" /\ ~ev'.click )
         => ev'.paints = 0 ]_vars

\* C34 (as claimed): the clear flag and the content flags are mutually
\* exclusive and the last writer wins: clearDisplayRequested is never true
\* together with newInfoDataReceived or newQrDataReceived, an accepted content
\* write cancels a pending clear, a clear command cancels the pending content
\* flags, and of a clear and a content write pending before the same tick
\* only the later one is acted on.
C34_ClearAndContentLastWriterWins ==
  /\ []C34_FlagsExclusive
  /\ C34_LastWriteCancels
  /\ C34_OnlyLaterActedOn

====
